---- MODULE Spec2Model ----
(***************************************************************************)
(* The hash-chained ledger of the security-association service:            *)
(* SimpleBlockchain and Block (src/src/components/SASearch.tsx, lines      *)
(* 119-216).  Block objects are mutable and are shared by reference, so    *)
(* the model keeps a heap of Block objects and the chain as a sequence of  *)
(* references into that heap.                                              *)
(***************************************************************************)
EXTENDS Integers, Sequences, FiniteSets, TLC

VARIABLES
    heap,      \* the Block objects created so far, by reference (1..Len(heap))
    chain,     \* SimpleBlockchain.chain: references to Block objects
    now,       \* the value of the last Date.now() read
    ret,       \* the last call on the ledger and what it returned
    tampered,  \* the stored field that was altered behind the ledger's back, if any
    adds,      \* the number of addBlock calls made so far
    supabase,  \* the tables security_associations and sa_audit_log
    calls,     \* the calls of addSA, updateSAStatus and deleteSA, each at its await
    auditor,   \* the BlockchainStatus component: its state and its interval timers
    form       \* the SAForm component: its fields and the errors it shows

vars == <<heap, chain, now, ret, tampered, adds, supabase, calls, auditor, form>>

\* What the ledger's own operations leave alone.
app == <<supabase, calls, auditor, form>>

(***************************************************************************)
(* Bounds of the model.                                                    *)
(***************************************************************************)
MaxBlocks == 3

MaxTime == 1

MaxTimers == 2

(***************************************************************************)
(* Program constants.                                                      *)
(***************************************************************************)
difficulty == 2

\* The literal previousHash of the genesis block, the one-character string "0".
Sentinel == [hex |-> <<0>>, of |-> <<>>]

\* The data of the genesis block, the string 'Genesis Block'.
GenesisData == [rec |-> [text |-> "Genesis Block"], timestamp |-> 0]

(***************************************************************************)
(* The digest.  CryptoJS.SHA256(text).toString() is a string of hex        *)
(* characters.  The model keeps the first HashWidth characters of it, over *)
(* an alphabet of HexBase characters of which '0' is one (field hex), and  *)
(* stands for the rest of the string by the hashed text itself (field of): *)
(* two digests are equal exactly when the hashed texts are equal.          *)
(***************************************************************************)
HashWidth == 2

HexBase == 4

HashSpace == HexBase ^ HashWidth

Min(a, b) == IF a < b THEN a ELSE b

\* Number -> fixed-width string of characters, most significant first.
ToHex(n) == [i \in 1..HashWidth |-> (n \div (HexBase ^ (HashWidth - i))) % HexBase]

\* The leading characters of a hash string, read as a number.
RECURSIVE HexNum(_)
HexNum(s) == IF s = <<>> THEN 0 ELSE HexNum(SubSeq(s, 1, Len(s) - 1)) * HexBase + s[Len(s)]

\* The characters of a string, as a number.
TextCode(s) == CASE s = "Genesis Block" -> 0
                 [] s = "10.0.0.1" -> 1
                 [] s = "10.0.0.2" -> 2
                 [] s = "active" -> 0
                 [] s = "expired" -> 1
                 [] s = "pending" -> 2
                 [] s = "deleted" -> 3
                 [] s = "s3cr3t" -> 5
                 [] s = "***ENCRYPTED***" -> 6
                 [] OTHER -> 7

\* The characters of a serialised payload, as a number: every field takes part.
PayloadCode(p) ==
    IF "text" \in DOMAIN p
    THEN TextCode(p.text)
    ELSE TextCode(p.destinationAddress) + p.spi + HexNum(p.keyHash.hex)
         + TextCode(p.status) + HexNum(p.previousHash.hex)

\* JSON.stringify(this.data): the serialised fields of the data, in order.
JSONstringify(data) == <<data.rec, data.timestamp>>

\* The leading characters of the digest of a text: every operand of the
\* concatenation takes part.  A text of one operand is a security key.
Mix(text) ==
    IF Len(text) = 1
    THEN (9 * TextCode(text[1].plain)) % HashSpace
    ELSE (7 * text[1] + 5 * HexNum(text[2].hex) + 11 * text[3]
          + 13 * (PayloadCode(text[4][1]) + text[4][2]) + 3 * text[5]) % HashSpace

SHA256(text) == [hex |-> ToHex(Mix(text)), of |-> text]

\* SADatabaseService.hashKey: CryptoJS.SHA256(key).toString()
hashKey(key) == SHA256(<<key>>)

\* A security key as the caller passes it, and the constant that lookupSA
\* returns in its place.
RawKeys == {[plain |-> "s3cr3t"]}

Encrypted == [plain |-> "***ENCRYPTED***"]

\* The BlockchainSARecord objects that a caller of the ledger hands to
\* createSABlock: destination address, SPI, key hash, status and the
\* previousHash field of the record (protocol, algorithm and lifetime are
\* carried along unchanged and are left out; the timestamp of the record is
\* overwritten by createSABlock).
saX == [destinationAddress |-> "10.0.0.1", spi |-> 10, keyHash |-> hashKey(Encrypted),
        status |-> "active", previousHash |-> Sentinel]

saY == [saX EXCEPT !.status = "expired"]

Payloads == {saX, saY}

\* this.index + this.previousHash + this.timestamp + JSON.stringify(this.data) + this.nonce
calculateHash(b) ==
    SHA256(<<b.index, b.previousHash, b.timestamp, JSONstringify(b.data), b.nonce>>)

\* new Block(index, timestamp, data, previousHash): nonce 0, hash computed.
Block(index, timestamp, data, previousHash) ==
    LET b == [index |-> index, timestamp |-> timestamp, data |-> data,
              previousHash |-> previousHash, nonce |-> 0, hash |-> Sentinel]
    IN  [b EXCEPT !.hash = calculateHash(b)]

\* Array(difficulty + 1).join('0')
target(d) == [i \in 1..d |-> 0]

\* String.prototype.substring(0, d)
substring(s, d) == SubSeq(s, 1, Min(d, Len(s)))

\* Mutant of mineBlock: the hash is recomputed before the nonce is incremented.
RECURSIVE mineBlock_hashBeforeNonce(_, _)
mineBlock_hashBeforeNonce(b, d) ==
    IF substring(b.hash.hex, d) # target(d)
    THEN LET n == [b EXCEPT !.hash = calculateHash(b)]
         IN  mineBlock_hashBeforeNonce([n EXCEPT !.nonce = @ + 1], d)
    ELSE b

\* Mutant of mineBlock: the target is one character short.
RECURSIVE mineBlock_shortTarget(_, _)
mineBlock_shortTarget(b, d) ==
    IF substring(b.hash.hex, d - 1) # target(d - 1)
    THEN LET n == [b EXCEPT !.nonce = @ + 1]
         IN  mineBlock_shortTarget([n EXCEPT !.hash = calculateHash(n)], d)
    ELSE b

\* Block.mineBlock: while the hash does not start with the target,
\* increment the nonce and recompute the hash.
RECURSIVE mineBlock(_, _)
mineBlock(b, d) ==
    IF substring(b.hash.hex, d) # target(d)
    THEN LET n == [b EXCEPT !.nonce = @ + 1]
         IN  mineBlock([n EXCEPT !.hash = calculateHash(n)], d)
    ELSE b

createGenesisBlock(t) == Block(0, t, GenesisData, Sentinel)

getLatestBlock(h, c) == h[c[Len(c)]]

\* Mutant of addBlock: the hash is read for the return value before mining.
addBlock_staleReturn(h, c, id) ==
    LET relinked == [h[id] EXCEPT !.previousHash = h[c[Len(c)]].hash]
        mined == mineBlock(relinked, difficulty)
    IN  [heap |-> [h EXCEPT ![id] = mined], chain |-> Append(c, id), hash |-> relinked.hash]

\* Mutant of addBlock: the block is pushed as it is, without sealing.
addBlock_unsealed(h, c, id) ==
    LET relinked == [h[id] EXCEPT !.previousHash = h[c[Len(c)]].hash]
    IN  [heap |-> [h EXCEPT ![id] = relinked], chain |-> Append(c, id), hash |-> relinked.hash]

\* SimpleBlockchain.addBlock on the Block object id: the ledger after the call
\* and the returned hash.
addBlock(h, c, id) ==
    LET relinked == [h[id] EXCEPT !.previousHash = getLatestBlock(h, c).hash]
        mined == mineBlock(relinked, difficulty)
    IN  [heap |-> [h EXCEPT ![id] = mined], chain |-> Append(c, id), hash |-> mined.hash]

\* Mutant of createSABlock: the draft is built against the first block of the
\* chain, not against its tip.
createSABlock_firstTip(h, c, saRecord, t1, t2) ==
    Block(1, t2, [rec |-> saRecord, timestamp |-> t1], h[c[1]].hash)

\* SimpleBlockchain.createSABlock: t1 and t2 are its two reads of Date.now().
createSABlock(h, c, saRecord, t1, t2) ==
    Block(Len(c), t2, [rec |-> saRecord, timestamp |-> t1], getLatestBlock(h, c).hash)

\* Mutant of validFrom: the link to the previous block is not compared.
RECURSIVE validFrom_hashOnly(_, _, _)
validFrom_hashOnly(h, c, i) ==
    IF i > Len(c) THEN [valid |-> TRUE, at |-> 0]
    ELSE IF h[c[i]].hash # calculateHash(h[c[i]])
         THEN [valid |-> FALSE, at |-> i]
         ELSE validFrom_hashOnly(h, c, i + 1)

\* A validation that also requires the proof of work of every block it
\* walks over.
RECURSIVE validFrom_proofOfWork(_, _, _)
validFrom_proofOfWork(h, c, i) ==
    IF i > Len(c) THEN [valid |-> TRUE, at |-> 0]
    ELSE IF \/ h[c[i]].hash # calculateHash(h[c[i]])
            \/ h[c[i]].previousHash # h[c[i - 1]].hash
            \/ substring(h[c[i]].hash.hex, difficulty) # target(difficulty)
         THEN [valid |-> FALSE, at |-> i]
         ELSE validFrom_proofOfWork(h, c, i + 1)

\* SimpleBlockchain.isChainValid: the walk from the second block, with the
\* position (1-based) at which it returned false, 0 when it returned true.
RECURSIVE validFrom(_, _, _)
validFrom(h, c, i) ==
    IF i > Len(c) THEN [valid |-> TRUE, at |-> 0]
    ELSE LET currentBlock == h[c[i]]
             previousBlock == h[c[i - 1]]
         IN  IF currentBlock.hash # calculateHash(currentBlock)
             THEN [valid |-> FALSE, at |-> i]
             ELSE IF currentBlock.previousHash # previousBlock.hash
                  THEN [valid |-> FALSE, at |-> i]
                  ELSE validFrom(h, c, i + 1)

isChainValidWalk(h, c) == validFrom(h, c, 2)

isChainValid(h, c) == isChainValidWalk(h, c).valid

\* The value null, among references to Block objects (which count from 1).
null == 0

\* Array.prototype.find over the chain from position i: the first block whose
\* hash is the given string.
RECURSIVE find(_, _, _, _)
find(h, c, hash, i) ==
    IF i > Len(c) THEN null
    ELSE IF h[c[i]].hash = hash THEN c[i] ELSE find(h, c, hash, i + 1)

\* SimpleBlockchain.getBlockByHash: this.chain.find(...) || null
getBlockByHash(h, c, hash) == find(h, c, hash, 1)

\* SimpleBlockchain.getAllBlocks: [...this.chain], a new array that holds the
\* same references.
getAllBlocks(c) == [i \in 1..Len(c) |-> c[i]]

(***************************************************************************)
(* The state machine.                                                      *)
(***************************************************************************)
NoRet == [op |-> "none"]

NoTamper == [pos |-> 0, field |-> "none"]

\* The value null where objects or strings are expected.
NULL == [null |-> TRUE]

\* The calls of the service that may be in flight together.
Calls == {"c1", "c2"}

\* A call that was not made yet.
Idle == [pc |-> "idle"]

\* Both tables without rows; ids counts the uuids generated so far.
EmptyTables == [security_associations |-> {}, sa_audit_log |-> <<>>, ids |-> 0]

\* No BlockchainStatus component is mounted and no interval timer is live:
\* timers holds the live timers, interval the id that the effect of the
\* mounted component keeps for its cleanup, made the number of setInterval
\* calls so far.
Unmounted ==
    [mounted |-> FALSE, timers |-> {}, interval |-> 0, made |-> 0,
     isValid |-> TRUE, lastCheck |-> 0]

\* new SimpleBlockchain(): the chain holds the genesis block.
\* SAForm as it is first rendered: useState of formData and of errors. The
\* text of the spi field is a sequence of characters.
InitialFormData == [destinationAddress |-> "", spi |-> <<>>, key |-> "", status |-> "active"]

\* errors = {}
NoErrors == [f \in {} |-> ""]

\* submitted is the addSA call that the last submit started, while the user
\* has not typed since.
InitialForm == [formData |-> InitialFormData, errors |-> NoErrors, submitted |-> "none"]

Init ==
    /\ now \in 0..MaxTime
    /\ heap = <<createGenesisBlock(now)>>
    /\ chain = <<1>>
    /\ ret = NoRet
    /\ tampered = NoTamper
    /\ adds = 0
    /\ supabase = EmptyTables
    /\ calls = [c \in Calls |-> Idle]
    /\ auditor = Unmounted
    /\ form = InitialForm

\* The two Date.now() reads of one createSABlock call.  Time is seen only
\* through these reads: each returns the value of the read before it or a
\* later one.
ClockReads == {<<t1, t2>> \in (now..MaxTime) \X (now..MaxTime) : t1 <= t2}

\* A caller creates a block and keeps the reference.
CreateSABlock(p) ==
    /\ Len(heap) < MaxBlocks
    /\ \E ts \in ClockReads :
          /\ heap' = Append(heap, createSABlock(heap, chain, p, ts[1], ts[2]))
          /\ now' = ts[2]
          /\ ret' = [op |-> "createSABlock", id |-> Len(heap) + 1]
    /\ UNCHANGED <<chain, tampered, adds>>
    /\ UNCHANGED app

\* A caller hands a Block object it holds to addBlock: one it created, or one
\* that getLatestBlock, getBlockByHash or getAllBlocks returned.
AddBlock(id) ==
    /\ Len(chain) < MaxBlocks
    /\ LET r == addBlock(heap, chain, id)
       IN  /\ heap' = r.heap
           /\ chain' = r.chain
           /\ ret' = [op |-> "addBlock", id |-> id, hash |-> r.hash]
    /\ adds' = adds + 1
    /\ UNCHANGED <<now, tampered>>
    /\ UNCHANGED app

\* One append as the service makes it (SADatabaseService.addSA, updateSAStatus,
\* deleteSA): createSABlock and addBlock of the returned block, with no await
\* between the two.
AppendSA(p) ==
    /\ Len(heap) < MaxBlocks
    /\ Len(chain) < MaxBlocks
    /\ \E ts \in ClockReads :
          LET block == createSABlock(heap, chain, p, ts[1], ts[2])
              r == addBlock(Append(heap, block), chain, Len(heap) + 1)
          IN  /\ heap' = r.heap
              /\ chain' = r.chain
              /\ now' = ts[2]
              /\ ret' = [op |-> "addBlock", id |-> Len(heap) + 1, hash |-> r.hash]
    /\ adds' = adds + 1
    /\ UNCHANGED tampered
    /\ UNCHANGED app

\* Mutant of IsChainValid: validation that repairs the hash of the block at
\* which it fails.
IsChainValid_repair ==
    LET walk == isChainValidWalk(heap, chain)
    IN  /\ ret' = [op |-> "isChainValid", walk |-> walk]
        /\ heap' = IF walk.valid THEN heap
                   ELSE [heap EXCEPT ![chain[walk.at]].hash = calculateHash(heap[chain[walk.at]])]
        /\ UNCHANGED <<chain, now, tampered, adds, supabase, calls, auditor, form>>

IsChainValid ==
    /\ ret' = [op |-> "isChainValid", walk |-> isChainValidWalk(heap, chain)]
    /\ UNCHANGED <<heap, chain, now, tampered, adds>>
    /\ UNCHANGED app

GetLatestBlock ==
    /\ ret' = [op |-> "getLatestBlock", id |-> chain[Len(chain)]]
    /\ UNCHANGED <<heap, chain, now, tampered, adds>>
    /\ UNCHANGED app

Next ==
    \/ \E p \in Payloads : CreateSABlock(p)
    \/ \E id \in 1..Len(heap) : AddBlock(id)
    \/ \E p \in Payloads : AppendSA(p)
    \/ IsChainValid
    \/ GetLatestBlock

Spec == Init /\ [][Next]_vars

(***************************************************************************)
(* The ledger as the service drives it: appends and integrity checks only. *)
(***************************************************************************)
NextAppend ==
    \/ \E p \in Payloads : AppendSA(p)
    \/ IsChainValid
    \/ GetLatestBlock

SpecAppend == Init /\ [][NextAppend]_vars

(***************************************************************************)
(* Tampering: a stored field of a block of the chain is assigned another   *)
(* value from outside the ledger (the fields of Block are public), and the *)
(* hash is not recomputed.  The public calls stay available.               *)
(***************************************************************************)
Fields == {"index", "timestamp", "data", "previousHash", "nonce"}

FieldValues(f) ==
    CASE f = "index" -> 0..MaxBlocks
      [] f = "timestamp" -> 0..MaxTime
      [] f = "data" -> {[rec |-> p, timestamp |-> t] : p \in Payloads, t \in 0..MaxTime}
      [] f = "previousHash" -> {heap[i].hash : i \in 1..Len(heap)} \cup {Sentinel}
      [] f = "nonce" -> 0..2

Assign(b, f, v) ==
    CASE f = "index" -> [b EXCEPT !.index = v]
      [] f = "timestamp" -> [b EXCEPT !.timestamp = v]
      [] f = "data" -> [b EXCEPT !.data = v]
      [] f = "previousHash" -> [b EXCEPT !.previousHash = v]
      [] f = "nonce" -> [b EXCEPT !.nonce = v]

Tamper(pos, f) ==
    /\ tampered = NoTamper
    /\ \E v \in FieldValues(f) :
          /\ Assign(heap[chain[pos]], f, v) # heap[chain[pos]]
          /\ heap' = [heap EXCEPT ![chain[pos]] = Assign(@, f, v)]
    /\ tampered' = [pos |-> pos, field |-> f]
    /\ ret' = [op |-> "tamper"]
    /\ UNCHANGED <<chain, now, adds>>
    /\ UNCHANGED app

NextTamper ==
    \/ \E p \in Payloads : AppendSA(p)
    \/ \E id \in 1..Len(heap) : AddBlock(id)
    \/ IsChainValid
    \/ \E pos \in 1..Len(chain), f \in Fields : Tamper(pos, f)

SpecTamper == Init /\ [][NextTamper]_vars

(***************************************************************************)
(* A holder of a reference to a block changes one of its fields and sets  *)
(* its hash to calculateHash(), without mining.                            *)
(***************************************************************************)
Rehash(pos, f) ==
    /\ tampered = NoTamper
    /\ \E v \in FieldValues(f) :
          LET changed == Assign(heap[chain[pos]], f, v)
          IN  /\ changed # heap[chain[pos]]
              /\ heap' = [heap EXCEPT ![chain[pos]] =
                    [changed EXCEPT !.hash = calculateHash(changed)]]
    /\ tampered' = [pos |-> pos, field |-> f]
    /\ ret' = [op |-> "rehash"]
    /\ UNCHANGED <<chain, now, adds>>
    /\ UNCHANGED app

NextRehash ==
    \/ \E p \in Payloads : AppendSA(p)
    \/ IsChainValid
    \/ \E pos \in 1..Len(chain), f \in Fields : Rehash(pos, f)

SpecRehash == Init /\ [][NextRehash]_vars

(***************************************************************************)
(* The string that calculateHash hands to SHA256, character by character,  *)
(* for Block objects whose fields hold values of their declared types.     *)
(***************************************************************************)
\* Number.prototype.toString of a non-negative integer: its decimal digits.
RECURSIVE NumberToString(_)
NumberToString(n) ==
    LET digit == <<"0", "1", "2", "3", "4", "5", "6", "7", "8", "9">>[(n % 10) + 1]
    IN  IF n < 10 THEN <<digit>> ELSE Append(NumberToString(n \div 10), digit)

\* JSON.stringify of an object: its members between braces.
JSONtext(members) == <<"{", members, "}">>

\* index + previousHash + timestamp + JSON.stringify(data) + nonce
preImage(b) ==
    NumberToString(b.index) \o b.previousHash \o NumberToString(b.timestamp)
        \o JSONtext(b.data) \o NumberToString(b.nonce)

\* The field values that the blocks are built from: an index of one and of
\* two digits, previousHash strings of up to MaxHashChars characters ("0" is
\* the previousHash of the genesis block), and two payloads.
MaxHashChars == 2

Indexes == {0, 1, 12}

HashChars == {"0", "2"}

PreviousHashes ==
    UNION {[1..n -> HashChars] : n \in 1..MaxHashChars}

Members == {"\"status\":\"active\"", "\"status\":\"expired\""}

Nonces == {0, 1}

Blocks ==
    [index : Indexes, previousHash : PreviousHashes, timestamp : 0..MaxTime,
     data : Members, nonce : Nonces]

\* calculateHash is called on two Block objects.
CalculateHash(a, b) ==
    /\ ret = NoRet
    /\ ret' = [op |-> "calculateHash", a |-> a, b |-> b,
                 of |-> <<preImage(a), preImage(b)>>]
    /\ UNCHANGED <<heap, chain, now, tampered, adds>>
    /\ UNCHANGED app

NextDigest == ret = NoRet /\ \E a, b \in Blocks : CalculateHash(a, b)

SpecDigest == Init /\ [][NextDigest]_vars

(***************************************************************************)
(* Sealing called directly on a Block object that a caller created and    *)
(* has not yet handed to the ledger, with any difficulty, before the       *)
(* caller hands it to addBlock.                                            *)
(***************************************************************************)
IsDraft(id) == \A i \in 1..Len(chain) : chain[i] # id

MineBlock(id, d) ==
    /\ d <= HashWidth   \* a longer target is never matched: the call does not return
    /\ IsDraft(id)
    /\ heap' = [heap EXCEPT ![id] = mineBlock(@, d)]
    /\ ret' = [op |-> "mineBlock", id |-> id, d |-> d, before |-> heap[id]]
    /\ UNCHANGED <<chain, now, tampered, adds>>
    /\ UNCHANGED app

NextMine ==
    \/ \E p \in Payloads : CreateSABlock(p)
    \/ \E id \in 1..Len(heap) : IsDraft(id) /\ AddBlock(id)
    \/ \E id \in 1..Len(heap), d \in 0..HashWidth : MineBlock(id, d)

SpecMine == Init /\ [][NextMine]_vars

(***************************************************************************)
(* Lookups by hash, on a ledger that callers append to block by block.     *)
(***************************************************************************)
\* A string that is the hash of no block: "deadbeef" repeated 8 times.
DeadBeef == [hex |-> <<3, 2>>, of |-> <<>>]

GetBlockByHash(hash) ==
    /\ ret' = [op |-> "getBlockByHash", hash |-> hash,
                block |-> getBlockByHash(heap, chain, hash)]
    /\ UNCHANGED <<heap, chain, now, tampered, adds>>
    /\ UNCHANGED app

NextLookup ==
    \/ \E p \in Payloads : CreateSABlock(p)
    \/ \E id \in 1..Len(heap) : AddBlock(id)
    \/ \E hash \in {heap[i].hash : i \in 1..Len(heap)} \cup {DeadBeef, Sentinel} :
          GetBlockByHash(hash)

SpecLookup == Init /\ [][NextLookup]_vars

(***************************************************************************)
(* A caller of getAllBlocks and what it can do with the returned array:    *)
(* reverse it, remove its last entry, or assign to a field of one of the   *)
(* Block objects that it holds.  Every such step records the blocks of the *)
(* ledger as they were before it.                                          *)
(***************************************************************************)
Ledger == [i \in 1..Len(chain) |-> heap[chain[i]]]

GetAllBlocks ==
    /\ ret' = [op |-> "getAllBlocks", blocks |-> getAllBlocks(chain)]
    /\ UNCHANGED <<heap, chain, now, tampered, adds>>
    /\ UNCHANGED app

HoldsSnapshot == ret.op \in {"getAllBlocks", "snapshot"}

SnapshotReverse ==
    /\ HoldsSnapshot
    /\ ret' = [op |-> "snapshot", ledger |-> Ledger,
                blocks |-> [i \in 1..Len(ret.blocks) |-> ret.blocks[Len(ret.blocks) + 1 - i]]]
    /\ UNCHANGED <<heap, chain, now, tampered, adds>>
    /\ UNCHANGED app

SnapshotPop ==
    /\ HoldsSnapshot
    /\ Len(ret.blocks) > 0
    /\ ret' = [op |-> "snapshot", ledger |-> Ledger,
                blocks |-> SubSeq(ret.blocks, 1, Len(ret.blocks) - 1)]
    /\ UNCHANGED <<heap, chain, now, tampered, adds>>
    /\ UNCHANGED app

SnapshotAssign(k, f) ==
    /\ HoldsSnapshot
    /\ k \in 1..Len(ret.blocks)
    /\ tampered = NoTamper
    /\ \E v \in FieldValues(f) :
          /\ Assign(heap[ret.blocks[k]], f, v) # heap[ret.blocks[k]]
          /\ heap' = [heap EXCEPT ![ret.blocks[k]] = Assign(@, f, v)]
    /\ tampered' = [pos |-> ret.blocks[k], field |-> f]
    /\ ret' = [op |-> "snapshot", ledger |-> Ledger, blocks |-> ret.blocks]
    /\ UNCHANGED <<chain, now, adds>>
    /\ UNCHANGED app

NextSnapshot ==
    \/ \E p \in Payloads : AppendSA(p)
    \/ GetAllBlocks
    \/ SnapshotReverse
    \/ SnapshotPop
    \/ \E k \in 1..MaxBlocks, f \in Fields : SnapshotAssign(k, f)
    \/ IsChainValid

SpecSnapshot == Init /\ [][NextSnapshot]_vars

(***************************************************************************)
(* SADatabaseService: addSA, updateSAStatus and deleteSA                   *)
(* (src/src/utils/SADatabaseService.ts).  Each call runs from one await to *)
(* the next without interruption; between two awaits of a call the other   *)
(* calls and the readers of the ledger may run.  A step that serves a      *)
(* database request also takes the call up to its next request when the    *)
(* code in between touches nothing but the call's own locals; the code     *)
(* that appends to the ledger is a step of its own.  Every database        *)
(* request may come back with an error.                                    *)
(***************************************************************************)
\* The (destination address, SPI) pairs the calls are about.
SAKeys == {[destinationAddress |-> "10.0.0.1", spi |-> 10]}

AddStatuses == {"active", "pending"}

UpdateStatuses == {"expired", "pending"}

\* Mutant of insertRow: the key is stored as it was passed.
insertRow_plainKey(sa, id) ==
    [id |-> id, destination_address |-> sa.destinationAddress, spi |-> sa.spi,
     key_hash |-> sa.key, status |-> sa.status,
     blockchain_tx_hash |-> NULL, blockchain_verified |-> FALSE]

\* The row that addSA's insert sends; id is the uuid the database generates.
insertRow(sa, id) ==
    [id |-> id, destination_address |-> sa.destinationAddress, spi |-> sa.spi,
     key_hash |-> hashKey(sa.key), status |-> sa.status,
     blockchain_tx_hash |-> NULL, blockchain_verified |-> FALSE]

\* The rows that .eq('destination_address', ...).eq('spi', ...) selects.
matching(rows, lookupKey) ==
    {r \in rows : /\ r.destination_address = lookupKey.destinationAddress
                  /\ r.spi = lookupKey.spi}

\* A table without the constraint: every insert is accepted.
unique_absent(rows, row) == TRUE

\* UNIQUE(destination_address, spi): the insert of a row is accepted when no
\* stored row has its pair.
unique(rows, row) ==
    \A r \in rows : ~(/\ r.destination_address = row.destination_address
                      /\ r.spi = row.spi)

\* The SecurityAssociation that lookupSA builds from a row.
toSA(row) ==
    [id |-> row.id, destinationAddress |-> row.destination_address, spi |-> row.spi,
     key |-> Encrypted, status |-> row.status,
     blockchainTxHash |-> row.blockchain_tx_hash,
     blockchainVerified |-> row.blockchain_verified]

\* SADatabaseService.lookupSA: failed says that the select came back with an
\* error other than PGRST116 (no row).
lookupSA(rows, lookupKey, failed) ==
    IF failed THEN [success |-> FALSE, sa |-> NULL]
    ELSE IF matching(rows, lookupKey) = {} THEN [success |-> TRUE, sa |-> NULL]
    ELSE [success |-> TRUE, sa |-> toSA(CHOOSE r \in matching(rows, lookupKey) : TRUE)]

\* SADatabaseService.createBlockchainRecord, on the ledger h, c.
createBlockchainRecord(sa, h, c) ==
    [destinationAddress |-> sa.destinationAddress, spi |-> sa.spi,
     keyHash |-> hashKey(sa.key), status |-> sa.status,
     previousHash |-> getLatestBlock(h, c).hash]

\* Mutant of recorded: the SA is recorded with the status it had.
recorded_oldStatus(call) == IF call.op = "addSA" THEN call.sa ELSE call.existing.sa

\* The SecurityAssociation that a call hands to createBlockchainRecord.
recorded(call) ==
    CASE call.op = "addSA" -> call.sa
      [] call.op = "updateSAStatus" -> [call.existing.sa EXCEPT !.status = call.status]
      [] call.op = "deleteSA" -> [call.existing.sa EXCEPT !.status = "deleted"]

\* The entry that a call inserts into sa_audit_log.
auditEntry(call) ==
    CASE call.op = "addSA" ->
            [sa_id |-> call.data.id, action |-> "CREATE", old_values |-> NULL,
             new_values |-> call.data, blockchain_tx_hash |-> call.txHash]
      [] call.op = "updateSAStatus" ->
            [sa_id |-> call.existing.sa.id, action |-> "UPDATE",
             old_values |-> call.existing.sa,
             new_values |-> [call.existing.sa EXCEPT !.status = call.status],
             blockchain_tx_hash |-> call.txHash]
      [] call.op = "deleteSA" ->
            [sa_id |-> call.existing.sa.id, action |-> "DELETE",
             old_values |-> call.existing.sa, new_values |-> NULL,
             blockchain_tx_hash |-> call.txHash]

\* The locals of a call: written says that the write to security_associations
\* came back without an error, block and txHash are the block that the call
\* created and the hash that addBlock returned.
NewCall(op, lookupKey) ==
    [op |-> op, key |-> lookupKey, pc |-> "lookup", sa |-> NULL, status |-> "",
     existing |-> NULL, written |-> FALSE, data |-> NULL, block |-> null,
     txHash |-> NULL, result |-> NULL]

Return(call, result) == [call EXCEPT !.pc = "done", !.result = result]

\* A call starts: it runs up to the select of lookupSA.
AddSA(c, lookupKey, key, status) ==
    /\ calls[c] = Idle
    /\ calls' = [calls EXCEPT ![c] =
          [NewCall("addSA", lookupKey) EXCEPT
              !.sa = [destinationAddress |-> lookupKey.destinationAddress,
                      spi |-> lookupKey.spi, key |-> key, status |-> status]]]
    /\ UNCHANGED <<heap, chain, now, ret, tampered, adds, supabase, auditor, form>>

UpdateSAStatus(c, lookupKey, status) ==
    /\ calls[c] = Idle
    /\ calls' = [calls EXCEPT ![c] =
          [NewCall("updateSAStatus", lookupKey) EXCEPT !.status = status]]
    /\ UNCHANGED <<heap, chain, now, ret, tampered, adds, supabase, auditor, form>>

DeleteSA(c, lookupKey) ==
    /\ calls[c] = Idle
    /\ calls' = [calls EXCEPT ![c] = NewCall("deleteSA", lookupKey)]
    /\ UNCHANGED <<heap, chain, now, ret, tampered, adds, supabase, auditor, form>>

\* The select of lookupSA is served and the call goes on to its write, or
\* returns: addSA when the SA exists, the other two when it was not found.
Lookup(c) ==
    /\ calls[c].pc = "lookup"
    /\ \E failed \in BOOLEAN :
          LET call == calls[c]
              existing == lookupSA(supabase.security_associations, call.key, failed)
              found == existing.success /\ existing.sa # NULL
          IN  calls' = [calls EXCEPT ![c] =
                 IF call.op = "addSA"
                 THEN IF found
                      THEN Return(call, [success |-> FALSE,
                              error |-> "SA with this destination address and SPI already exists"])
                      ELSE [call EXCEPT !.pc = "write", !.existing = existing]
                 ELSE IF ~found
                      THEN Return(call, [success |-> FALSE, error |-> "SA not found"])
                      ELSE [call EXCEPT !.pc = "write", !.existing = existing]]
    /\ UNCHANGED <<heap, chain, now, ret, tampered, adds, supabase, auditor, form>>

\* The insert of addSA is served: the pair (destination_address, spi) is
\* UNIQUE; the call returns on an error.
Insert(c) ==
    /\ calls[c].pc = "write"
    /\ calls[c].op = "addSA"
    /\ \E failed \in BOOLEAN :
          LET call == calls[c]
              rows == supabase.security_associations
              row == insertRow(call.sa, supabase.ids + 1)
          IN  IF failed \/ ~unique(rows, row)
              THEN /\ calls' = [calls EXCEPT ![c] =
                         Return(call, [success |-> FALSE, error |-> "error.message"])]
                   /\ UNCHANGED supabase
              ELSE /\ calls' = [calls EXCEPT ![c] =
                         [call EXCEPT !.pc = "append", !.written = TRUE, !.data = row]]
                   /\ supabase' = [supabase EXCEPT
                         !.security_associations = rows \cup {row},
                         !.ids = @ + 1]
    /\ UNCHANGED <<heap, chain, now, ret, tampered, adds, auditor, form>>

\* The update of updateSAStatus is served: .single() is an error when no row
\* matches any more; the call returns on an error.
Update(c) ==
    /\ calls[c].pc = "write"
    /\ calls[c].op = "updateSAStatus"
    /\ \E failed \in BOOLEAN :
          LET call == calls[c]
              rows == supabase.security_associations
              hit == matching(rows, call.key)
              row == [(CHOOSE r \in hit : TRUE) EXCEPT !.status = call.status]
          IN  IF failed \/ hit = {}
              THEN /\ calls' = [calls EXCEPT ![c] =
                         Return(call, [success |-> FALSE, error |-> "error.message"])]
                   /\ UNCHANGED supabase
              ELSE /\ calls' = [calls EXCEPT ![c] =
                         [call EXCEPT !.pc = "append", !.written = TRUE, !.data = row]]
                   /\ supabase' = [supabase EXCEPT
                         !.security_associations = (rows \ hit) \cup {row}]
    /\ UNCHANGED <<heap, chain, now, ret, tampered, adds, auditor, form>>

\* The delete of deleteSA is served: it is no error when no row matches any
\* more; the call returns on an error.
Delete(c) ==
    /\ calls[c].pc = "write"
    /\ calls[c].op = "deleteSA"
    /\ \E failed \in BOOLEAN :
          LET call == calls[c]
              rows == supabase.security_associations
          IN  IF failed
              THEN /\ calls' = [calls EXCEPT ![c] =
                         Return(call, [success |-> FALSE, error |-> "error.message"])]
                   /\ UNCHANGED supabase
              ELSE /\ calls' = [calls EXCEPT ![c] =
                         [call EXCEPT !.pc = "append", !.written = TRUE]]
                   /\ supabase' = [supabase EXCEPT
                         !.security_associations = rows \ matching(rows, call.key)]
    /\ UNCHANGED <<heap, chain, now, ret, tampered, adds, auditor, form>>

\* The call continues after its write: createBlockchainRecord, createSABlock
\* and addBlock, and the next request is sent.
Record(c) ==
    /\ calls[c].pc = "append"
    /\ Len(heap) < MaxBlocks
    /\ Len(chain) < MaxBlocks
    /\ \E ts \in ClockReads :
          LET call == calls[c]
              blockchainRecord == createBlockchainRecord(recorded(call), heap, chain)
              block == createSABlock(heap, chain, blockchainRecord, ts[1], ts[2])
              r == addBlock(Append(heap, block), chain, Len(heap) + 1)
          IN  /\ heap' = r.heap
              /\ chain' = r.chain
              /\ now' = ts[2]
              /\ ret' = [op |-> "addBlock", id |-> Len(heap) + 1, hash |-> r.hash]
              /\ calls' = [calls EXCEPT ![c] =
                    [call EXCEPT !.block = Len(heap) + 1, !.txHash = r.hash,
                                 !.pc = IF call.op = "deleteSA" THEN "audit" ELSE "setTx"]]
    /\ adds' = adds + 1
    /\ UNCHANGED <<tampered, supabase, auditor, form>>

\* The update that stores the transaction hash in the row is served; its
\* result is not looked at.
SetTxHash(c) ==
    /\ calls[c].pc = "setTx"
    /\ \E failed \in BOOLEAN :
          LET call == calls[c]
              rows == supabase.security_associations
              stored(r) == IF call.op = "addSA"
                           THEN [r EXCEPT !.blockchain_tx_hash = call.txHash,
                                          !.blockchain_verified = TRUE]
                           ELSE [r EXCEPT !.blockchain_tx_hash = call.txHash]
          IN  supabase' = [supabase EXCEPT !.security_associations =
                 IF failed THEN rows
                 ELSE {IF r.id = call.data.id THEN stored(r) ELSE r : r \in rows}]
    /\ calls' = [calls EXCEPT ![c].pc = "audit"]
    /\ UNCHANGED <<heap, chain, now, ret, tampered, adds, auditor, form>>

\* The insert into sa_audit_log is served; its result is not looked at, and
\* the call returns success.
Audit(c) ==
    /\ calls[c].pc = "audit"
    /\ \E failed \in BOOLEAN :
          supabase' = [supabase EXCEPT !.sa_audit_log =
             IF failed THEN @ ELSE Append(@, auditEntry(calls[c]))]
    /\ calls' = [calls EXCEPT ![c] = Return(@, [success |-> TRUE])]
    /\ UNCHANGED <<heap, chain, now, ret, tampered, adds, auditor, form>>

\* The store as the service finds it: empty, or with the row of an SA that
\* was added before this ledger was constructed.
StoredRow ==
    [insertRow([destinationAddress |-> "10.0.0.1", spi |-> 10,
                key |-> CHOOSE k \in RawKeys : TRUE, status |-> "active"], 1)
        EXCEPT !.blockchain_tx_hash = DeadBeef, !.blockchain_verified = TRUE]

InitService ==
    /\ now \in 0..MaxTime
    /\ heap = <<createGenesisBlock(now)>>
    /\ chain = <<1>>
    /\ ret = NoRet
    /\ tampered = NoTamper
    /\ adds = 0
    /\ supabase \in {EmptyTables,
                      [EmptyTables EXCEPT !.security_associations = {StoredRow}, !.ids = 1]}
    /\ calls = [c \in Calls |-> Idle]
    /\ auditor = Unmounted
    /\ form = InitialForm

NextService ==
    \/ \E c \in Calls, k \in SAKeys, key \in RawKeys, s \in AddStatuses : AddSA(c, k, key, s)
    \/ \E c \in Calls, k \in SAKeys, s \in UpdateStatuses : UpdateSAStatus(c, k, s)
    \/ \E c \in Calls, k \in SAKeys : DeleteSA(c, k)
    \/ \E c \in Calls : Lookup(c)
    \/ \E c \in Calls : Insert(c)
    \/ \E c \in Calls : Update(c)
    \/ \E c \in Calls : Delete(c)
    \/ \E c \in Calls : Record(c)
    \/ \E c \in Calls : SetTxHash(c)
    \/ \E c \in Calls : Audit(c)
    \/ IsChainValid

SpecService == InitService /\ [][NextService]_vars

\* An awaited database call that comes after the write of the call rejects
\* (the promise throws instead of resolving to { data, error }): the catch
\* block of the method returns success: false.
Rejects(c) ==
    /\ calls[c].pc \in {"setTx", "audit"}
    /\ calls' = [calls EXCEPT ![c] =
          Return(@, [success |-> FALSE, error |-> "error.message"])]
    /\ UNCHANGED <<heap, chain, now, ret, tampered, adds, supabase, auditor, form>>

NextRejects ==
    \/ \E c \in Calls, k \in SAKeys, key \in RawKeys, s \in AddStatuses : AddSA(c, k, key, s)
    \/ \E c \in Calls, k \in SAKeys, s \in UpdateStatuses : UpdateSAStatus(c, k, s)
    \/ \E c \in Calls, k \in SAKeys : DeleteSA(c, k)
    \/ \E c \in Calls : Lookup(c)
    \/ \E c \in Calls : Insert(c)
    \/ \E c \in Calls : Update(c)
    \/ \E c \in Calls : Delete(c)
    \/ \E c \in Calls : Record(c)
    \/ \E c \in Calls : SetTxHash(c)
    \/ \E c \in Calls : Audit(c)
    \/ \E c \in Calls : Rejects(c)

SpecRejects == InitService /\ [][NextRejects]_vars

(***************************************************************************)
(* The form: the SAForm component (src/src/components/SAForm.tsx), whose   *)
(* onAddSA prop is App.handleAddSA.                                        *)
(***************************************************************************)
\* What the user types into the fields.
MaxSpi == 10

FieldTexts(field) ==
    CASE field = "destinationAddress" -> {"10.0.0.1"}
      [] field = "spi" -> {NumberToString(MaxSpi)}
      [] field = "key" -> {k.plain : k \in RawKeys}

\* parseInt of the text of a number field.
parseInt(text) == CHOOSE n \in 0..MaxSpi : NumberToString(n) = text

\* SAForm.validateForm: the errors of the required fields; the texts that
\* the user types have the formats that it asks for.
validateForm(formData) ==
    LET missing == {f \in {"destinationAddress", "spi", "key"} :
                       formData[f] = InitialFormData[f]}
    IN  [errors |-> [f \in missing |-> "is required"], ok |-> missing = {}]

\* ToBoolean of what the condition of an if statement evaluates to: every
\* object is true.
ToBoolean(v) == IF v.type = "boolean" THEN v.value ELSE TRUE

\* App.handleAddSA is an async function: what a call of it returns is a
\* Promise, which resolves to result.success when the call of addSA is done.
handleAddSA(c) == [type |-> "object", promise |-> c]

\* SAForm.handleInputChange
HandleInputChange(field, value) ==
    /\ form.formData[field] # value
    /\ form' = [formData |-> [form.formData EXCEPT ![field] = value],
                 errors |-> [f \in DOMAIN form.errors |->
                               IF f = field THEN "" ELSE form.errors[f]],
                 submitted |-> "none"]
    /\ UNCHANGED <<heap, chain, now, ret, tampered, adds, supabase, calls, auditor>>

\* SAForm.handleSubmit, with the call of App.handleAddSA that runs up to the
\* select of lookupSA in SADatabaseService.addSA.
HandleSubmit(c) ==
    /\ LET checked == validateForm(form.formData)
           newSA == [destinationAddress |-> form.formData.destinationAddress,
                     spi |-> parseInt(form.formData.spi),
                     key |-> [plain |-> form.formData.key],
                     status |-> form.formData.status]
           success == handleAddSA(c)
       IN  IF ~checked.ok
           THEN /\ form' = [form EXCEPT !.errors = checked.errors, !.submitted = "none"]
                /\ UNCHANGED calls
           ELSE /\ calls[c] = Idle
                /\ calls' = [calls EXCEPT ![c] =
                      [NewCall("addSA", [destinationAddress |-> newSA.destinationAddress,
                                         spi |-> newSA.spi])
                          EXCEPT !.sa = newSA]]
                /\ form' = IF ToBoolean(success)
                           THEN [formData |-> InitialFormData, errors |-> NoErrors,
                                 submitted |-> c]
                           ELSE [form EXCEPT
                                   !.errors = [f \in {"general"} |->
                                      "SA with this destination address and SPI already exists"],
                                   !.submitted = c]
    /\ UNCHANGED <<heap, chain, now, ret, tampered, adds, supabase, auditor>>

NextForm ==
    \/ \E field \in {"destinationAddress", "spi", "key"} :
          \E value \in FieldTexts(field) : HandleInputChange(field, value)
    \/ \E c \in Calls : HandleSubmit(c)
    \/ \E c \in Calls : Lookup(c)
    \/ \E c \in Calls : Insert(c)
    \/ \E c \in Calls : Record(c)
    \/ \E c \in Calls : SetTxHash(c)
    \/ \E c \in Calls : Audit(c)

SpecForm == InitService /\ [][NextForm]_vars

\* The service with addSA calls only: rows are inserted and never changed
\* or deleted by another call.
NextAdd ==
    \/ \E c \in Calls, k \in SAKeys, key \in RawKeys, s \in AddStatuses : AddSA(c, k, key, s)
    \/ \E c \in Calls : Lookup(c)
    \/ \E c \in Calls : Insert(c)
    \/ \E c \in Calls : Record(c)
    \/ \E c \in Calls : SetTxHash(c)
    \/ \E c \in Calls : Audit(c)

SpecAdd == InitService /\ [][NextAdd]_vars

(***************************************************************************)
(* The integrity auditor: the BlockchainStatus component                   *)
(* (src/src/components/BlockchainStatus.tsx).  Its effect runs when the    *)
(* component is mounted and when the saService prop changes; the cleanup   *)
(* of the effect runs before the effect is run again and when the          *)
(* component is unmounted.  A step of the timers is one period going by:   *)
(* every live interval timer calls its callback once.                      *)
(***************************************************************************)
IntervalMs == 30000

\* Mutant of clearInterval: the timer stays live.
clearInterval_leak(timers, interval) == timers

\* clearInterval(interval)
clearInterval(timers, interval) == {t \in timers : t.id # interval}

\* setInterval(checkIntegrity, 30000): the live timers with the new one
\* added, under the id given.
setInterval(timers, id, ms) == timers \cup {[id |-> id, ms |-> ms]}

\* checkIntegrity: saService.verifyBlockchainIntegrity(), which is
\* blockchain.isChainValid(), then setIsValid and setLastCheck(new Date()).
\* The setters do nothing on a component that was unmounted.
checkIntegrity(a, h, c, t) ==
    IF a.mounted THEN [a EXCEPT !.isValid = isChainValid(h, c), !.lastCheck = t] ELSE a

\* The effect: checkIntegrity(), then setInterval.
effect(a, h, c, t) ==
    [checkIntegrity(a, h, c, t) EXCEPT
        !.timers = setInterval(a.timers, a.made + 1, IntervalMs),
        !.interval = a.made + 1,
        !.made = a.made + 1]

\* The cleanup of the effect.
cleanup(a) == [a EXCEPT !.timers = clearInterval(a.timers, a.interval)]

Checked(by, runs, every) ==
    [op |-> "checkIntegrity", by |-> by, runs |-> runs, every |-> every,
     mounted |-> auditor'.mounted, walk |-> isChainValidWalk(heap, chain)]

Mount ==
    /\ ~auditor.mounted
    /\ auditor.made < MaxTimers
    /\ \E t \in now..MaxTime :
          /\ auditor' = effect([auditor EXCEPT !.mounted = TRUE, !.isValid = TRUE,
                                                !.lastCheck = t], heap, chain, t)
          /\ now' = t
    /\ ret' = Checked("mount", 1, 0)
    /\ UNCHANGED <<heap, chain, tampered, adds, supabase, calls, form>>

\* The component is rendered with another saService.
SetService ==
    /\ auditor.mounted
    /\ auditor.made < MaxTimers
    /\ \E t \in now..MaxTime :
          /\ auditor' = effect(cleanup(auditor), heap, chain, t)
          /\ now' = t
    /\ ret' = Checked("saService", 1, 0)
    /\ UNCHANGED <<heap, chain, tampered, adds, supabase, calls, form>>

\* One period goes by.
IntervalElapses ==
    /\ auditor.timers # {}
    /\ \E t \in now..MaxTime :
          /\ auditor' = checkIntegrity(auditor, heap, chain, t)
          /\ now' = t
    /\ ret' = Checked("interval", Cardinality(auditor.timers),
                       {t.ms : t \in auditor.timers})
    /\ UNCHANGED <<heap, chain, tampered, adds, supabase, calls, form>>

\* The component is unmounted; its state is discarded.
Unmount ==
    /\ auditor.mounted
    /\ auditor' = [cleanup(auditor) EXCEPT !.mounted = FALSE, !.interval = 0,
                                           !.isValid = TRUE, !.lastCheck = 0]
    /\ UNCHANGED <<heap, chain, now, ret, tampered, adds, supabase, calls, form>>

NextAuditor ==
    \/ \E p \in Payloads : AppendSA(p)
    \/ Mount
    \/ SetService
    \/ IntervalElapses
    \/ Unmount

SpecAuditor == Init /\ [][NextAuditor]_vars

\* The auditor on a ledger that is tampered with.
NextAuditorTamper ==
    \/ \E p \in Payloads : AppendSA(p)
    \/ \E pos \in 1..Len(chain), f \in Fields : Tamper(pos, f)
    \/ Mount
    \/ IntervalElapses
    \/ Unmount

SpecAuditorTamper == Init /\ [][NextAuditorTamper]_vars

\* The read operations of the ledger and the auditor, on a ledger that is
\* appended to and whose payloads are tampered with.
NextReads ==
    \/ \E p \in Payloads : AppendSA(p)
    \/ \E pos \in 1..Len(chain) : Tamper(pos, "data")
    \/ \E p \in Payloads : CreateSABlock(p)
    \/ IsChainValid
    \/ GetLatestBlock
    \/ \E hash \in {heap[i].hash : i \in 1..Len(heap)} \cup {DeadBeef} : GetBlockByHash(hash)
    \/ GetAllBlocks
    \/ Mount
    \/ IntervalElapses

\* No read operation looks at the clock: it stands at its last value.
InitReads == Init /\ now = MaxTime

SpecReads == InitReads /\ [][NextReads]_vars

(***************************************************************************)
(* Properties of the ledger.                                               *)
(***************************************************************************)
BlockAt(i) == heap[chain[i]]

HashOk(i) == BlockAt(i).hash = calculateHash(BlockAt(i))

LinkOk(i) == BlockAt(i).previousHash = BlockAt(i - 1).hash

Sealed(b, d) == substring(b.hash.hex, d) = target(d)

\* C1 (P1 self-consistency): on a ledger that is only ever appended to, one
\* append being createSABlock followed at once by addBlock of the returned
\* block, the validation walk succeeds in every state, and every
\* isChainValid() call returns true.
C1_SelfConsistency ==
    /\ isChainValid(heap, chain)
    /\ ret.op = "isChainValid" => ret.walk.valid

C1_Witness ==
    /\ Len(chain) = MaxBlocks
    /\ ret.op = "isChainValid"
    /\ ret.walk.valid
    /\ \E i \in 2..Len(chain) : BlockAt(i).nonce > 0

\* C2 (hash integrity): after any sequence of createSABlock and addBlock calls
\* every block of the chain stores the digest of its stored fields.
C2_HashIntegrity == \A i \in 1..Len(chain) : HashOk(i)

\* C3 (P3 linkage): in every chain that addBlock calls produce, each block
\* after the first stores the hash of the block before it.
C3_Linkage == \A i \in 2..Len(chain) : LinkOk(i)

\* C4 (P2 tamper detection): once one stored field of any block of the chain,
\* the genesis block included, was changed without recomputing the hash,
\* isChainValid() returns false.
C4_TamperDetected ==
    (tampered # NoTamper /\ ret.op = "isChainValid") => ~ret.walk.valid

\* C5 (P4 proof-of-work): mineBlock(d) leaves the block with a hash whose first
\* d characters are '0'; for d = 0 it leaves the block as it was (nonce 0 for a
\* new block); every block that addBlock pushed has a hash that starts with
\* difficulty zeros.
C5_ProofOfWork ==
    /\ ret.op = "mineBlock" =>
          /\ Sealed(heap[ret.id], ret.d)
          /\ ret.d = 0 => heap[ret.id] = ret.before
    /\ \A i \in 2..Len(chain) : Sealed(BlockAt(i), difficulty)

C5_Witness ==
    /\ ret.op = "mineBlock"
    /\ ret.d = difficulty
    /\ heap[ret.id].nonce > ret.before.nonce
    /\ Len(chain) >= 2

\* C6 (P5 genesis shape): in every reachable state the chain is not empty and
\* its first block has index 0, previousHash "0" and nonce 0.
C6_GenesisShape ==
    /\ Len(chain) >= 1
    /\ BlockAt(1).index = 0
    /\ BlockAt(1).previousHash = Sentinel
    /\ BlockAt(1).nonce = 0

\* C7 (index equals chain position): after any sequence of createSABlock and
\* addBlock calls the block at position i (counted from 0) has index i.
C7_IndexIsPosition == \A i \in 1..Len(chain) : BlockAt(i).index = i - 1

\* C8 (append-only history): no step changes or removes a block that is in the
\* chain: every position keeps its block, with all six fields unchanged.
C8_AppendOnly ==
    [][\A i \in 1..Len(chain) :
          /\ i <= Len(chain')
          /\ chain'[i] = chain[i]
          /\ heap'[chain[i]] = heap[chain[i]]]_vars

\* C9 (append postcondition): every addBlock call makes the chain exactly one
\* longer and no other call changes its length (genesis plus n calls: n + 1
\* blocks); the block the call was given is the tip and the returned string
\* is the hash of that tip.
C9_AppendPostcondition ==
    /\ Len(chain) = 1 + adds
    /\ ret.op = "addBlock" =>
          /\ chain[Len(chain)] = ret.id
          /\ ret.hash = BlockAt(Len(chain)).hash

C9_Witness ==
    /\ adds = 2
    /\ Len(chain) = 3
    /\ ret.op = "addBlock"
    /\ ret.hash = BlockAt(3).hash
    /\ BlockAt(3).nonce > 0

\* C10 (validate reference semantics): for every content of the chain,
\* isChainValid() returns true exactly when every block after the first stores
\* the digest of its fields and the hash of the block before it; it returns
\* true for the genesis block alone, and it returns false at the first block
\* that violates either condition.
C10_ValidateSemantics ==
    ret.op = "isChainValid" =>
       /\ ret.walk.valid <=> \A i \in 2..Len(chain) : HashOk(i) /\ LinkOk(i)
       /\ Len(chain) = 1 => ret.walk.valid
       /\ ~ret.walk.valid =>
             /\ ret.walk.at \in 2..Len(chain)
             /\ ~(HashOk(ret.walk.at) /\ LinkOk(ret.walk.at))
             /\ \A j \in 2..(ret.walk.at - 1) : HashOk(j) /\ LinkOk(j)

\* A walk that gets past a block whose hash is right and stops at a later one
\* only because of the link.
C10_Witness ==
    /\ ret.op = "isChainValid"
    /\ ~ret.walk.valid
    /\ HashOk(ret.walk.at)
    /\ ~LinkOk(ret.walk.at)

\* C11 (P6 lookup is total): getBlockByHash(h) returns the first block in
\* chain order whose hash is h, and null when no block has that hash, as for
\* "deadbeef" repeated 8 times; the hash that addBlock returned resolves to
\* the block that the call appended.
C11_LookupTotal ==
    /\ ret.op = "getBlockByHash" =>
          LET hits == {i \in 1..Len(chain) : BlockAt(i).hash = ret.hash}
          IN  /\ hits = {} <=> ret.block = null
              /\ hits # {} => \E i \in hits : /\ chain[i] = ret.block
                                               /\ \A j \in hits : i <= j
    /\ ret.op = "addBlock" => getBlockByHash(heap, chain, ret.hash) = ret.id

\* C11, its last part: the hash that addBlock returned resolves to the block
\* that the call appended.
C11_Counterexample ==
    ret.op = "addBlock" => getBlockByHash(heap, chain, ret.hash) = ret.id

\* C12 (snapshot is a defensive copy): whatever a caller does to the value
\* that getAllBlocks() returned (reordering or removing entries of the array,
\* assigning to fields of the Block elements), the blocks of the ledger stay
\* as they were, and isChainValid() stays true.
C12_DefensiveCopy ==
    /\ ret.op = "snapshot" => Ledger = ret.ledger
    /\ ret.op = "isChainValid" => ret.walk.valid

\* C12, for the steps of the caller: whatever it does with the returned
\* array and its elements leaves the ledger's blocks as they were.
C12_Counterexample == ret.op = "snapshot" => Ledger = ret.ledger

\* The calls that have appended their block.
Appended == {c \in Calls : calls[c].pc # "idle" /\ calls[c].block # null}

\* C13 (Scenario D, no silent fork): with addSA, updateSAStatus and deleteSA
\* calls running concurrently on one service, interleaved at every await, no
\* two blocks of the chain share an index or a previousHash; every block was
\* built and sealed against the block that is before it in the chain, and
\* every call that appended finds its block at exactly one position.
C13_NoSilentFork ==
    /\ \A i, j \in 1..Len(chain) :
          i # j => /\ BlockAt(i).index # BlockAt(j).index
                   /\ BlockAt(i).previousHash # BlockAt(j).previousHash
    /\ \A i \in 2..Len(chain) :
          /\ BlockAt(i).index = i - 1
          /\ LinkOk(i)
          /\ BlockAt(i).data.rec.previousHash = BlockAt(i - 1).hash
          /\ Sealed(BlockAt(i), difficulty)
    /\ \A c \in Appended :
          /\ Cardinality({i \in 1..Len(chain) : chain[i] = calls[c].block}) = 1
          /\ \A d \in Appended : d # c => calls[d].block # calls[c].block
    /\ Len(chain) = 1 + Cardinality(Appended)

\* Two calls in flight together, both past their append.
C13_Witness ==
    /\ Len(chain) = 3
    /\ \A c \in Calls : calls[c].pc \in {"setTx", "audit"}
    /\ \E c \in Calls : calls[c].op = "addSA"
    /\ \E c \in Calls : calls[c].op = "updateSAStatus"

\* C14 (atomic visibility of append): at every point between two awaits of
\* the service calls in flight, every block that is in the chain is hashed,
\* linked and sealed, so that a reader (isChainValid as the periodic check
\* calls it, getBlockByHash, getAllBlocks) never sees a block that is only
\* partly appended; without tampering isChainValid() returns true there.
C14_AtomicVisibility ==
    /\ \A i \in 2..Len(chain) :
          HashOk(i) /\ LinkOk(i) /\ Sealed(BlockAt(i), difficulty)
    /\ \A id \in 1..Len(heap) : \E i \in 1..Len(chain) : chain[i] = id
    /\ isChainValid(heap, chain)
    /\ ret.op = "isChainValid" => ret.walk.valid

\* An integrity check that ran after one call appended and before it
\* returned, while the other call is about to append.
C14_Witness ==
    /\ ret.op = "isChainValid"
    /\ ret.walk.valid
    /\ Len(chain) = 2
    /\ \E c, d \in Calls : /\ calls[c].pc \in {"setTx", "audit"}
                             /\ calls[d].pc = "append"

\* C16 (auditor scheduling and cancellation): a mounted BlockchainStatus has
\* exactly one live interval timer, of 30000 ms, also after the saService
\* prop changed; one integrity check runs at mount and one per period of the
\* timer; once the component is unmounted no timer is live, so that no
\* further check runs.
C16_AuditorScheduling ==
    /\ auditor.mounted =>
          /\ Cardinality(auditor.timers) = 1
          /\ \A t \in auditor.timers : t.id = auditor.interval /\ t.ms = 30000
    /\ ~auditor.mounted => auditor.timers = {}
    /\ ret.op = "checkIntegrity" =>
          /\ ret.runs = 1
          /\ ret.mounted
          /\ ret.by = "interval" => ret.every = {30000}

\* A check by the timer that was set when the saService prop changed.
C16_Witness ==
    /\ ret.op = "checkIntegrity"
    /\ ret.by = "interval"
    /\ auditor.mounted
    /\ auditor.interval = 2
    /\ auditor.made = 2

\* C17 (auditor catches tampering): once a field of a block of the chain was
\* altered, whatever the field and the block, every later integrity check
\* leaves isValid false; after each check isValid is what isChainValid()
\* returned and lastCheck is the time of the check.
C17_AuditorCatchesTampering ==
    (auditor.mounted /\ ret.op = "checkIntegrity") =>
       /\ auditor.isValid = ret.walk.valid
       /\ auditor.lastCheck = now
       /\ tampered # NoTamper => ~auditor.isValid

\* C17, for the checks by the timer: a check that runs after a block was
\* altered leaves isValid false.
C17_Counterexample ==
    (auditor.mounted /\ ret.op = "checkIntegrity" /\ ret.by = "interval"
        /\ tampered # NoTamper) => ~auditor.isValid

\* The steps that are read operations of the ledger or runs of the auditor.
ReadStep ==
    ret'.op \in {"isChainValid", "getBlockByHash", "getAllBlocks", "getLatestBlock",
                 "createSABlock", "checkIntegrity"}

\* C15 (read operations have no effect on the ledger): a step of
\* isChainValid, getBlockByHash, getAllBlocks, getLatestBlock or createSABlock,
\* and a step of the integrity auditor, leaves the chain and every field of
\* every Block object as they were, also on a corrupted chain (validation
\* reports and does not repair); the auditor appends and mines nothing.
C15_ReadsHaveNoEffect ==
    [][(ReadStep /\ ret' # ret) =>
          /\ chain' = chain
          /\ \A id \in 1..Len(heap) : heap'[id] = heap[id]
          /\ adds' = adds
          /\ (ret'.op = "checkIntegrity" => heap' = heap)]_vars

\* An integrity check that reported a corrupted chain.
C15_Witness ==
    /\ ret.op = "checkIntegrity"
    /\ ~ret.walk.valid
    /\ tampered # NoTamper
    /\ Len(chain) = MaxBlocks

\* The calls that returned success: true.
Succeeded == {c \in Calls : calls[c].pc = "done" /\ calls[c].result.success}

\* The values of the fields of a stored object that hold a key or its hash.
KeysIn(v) == {v[f] : f \in DOMAIN v \cap {"key", "key_hash", "keyHash"}}

\* Everything that is stored: the rows, the old and new values of the audit
\* entries, and the payloads of the blocks.
Stored ==
    supabase.security_associations
    \cup {supabase.sa_audit_log[i].old_values : i \in 1..Len(supabase.sa_audit_log)}
    \cup {supabase.sa_audit_log[i].new_values : i \in 1..Len(supabase.sa_audit_log)}
    \cup {heap[id].data.rec : id \in 1..Len(heap)}

\* C18 (the raw key is never stored): whatever addSA, updateSAStatus and
\* deleteSA calls were made, no row, no old or new value of an audit entry
\* and no block payload holds the key that was passed to addSA: what they
\* hold in its place is its SHA-256 hash, or the constant that lookupSA
\* returns for every key, or the hash of that constant.
C18_RawKeyNeverStored ==
    \A v \in Stored : \A k \in KeysIn(v) :
       /\ k \notin RawKeys
       /\ k \in {hashKey(raw) : raw \in RawKeys} \cup {Encrypted, hashKey(Encrypted)}

\* An addSA and an updateSAStatus for the SA it added have both returned
\* success, with their rows, audit entries and blocks stored.
C18_Witness ==
    /\ Succeeded = Calls
    /\ \E c \in Calls : calls[c].op = "addSA"
    /\ \E c \in Calls : calls[c].op = "updateSAStatus"
    /\ Len(supabase.sa_audit_log) = 2
    /\ Len(chain) = 3
    /\ \E r \in supabase.security_associations : r.key_hash \in {hashKey(raw) : raw \in RawKeys}

\* The status that the SA has once a call has succeeded.
Resulting(call) ==
    CASE call.op = "addSA" -> call.sa.status
      [] call.op = "updateSAStatus" -> call.status
      [] call.op = "deleteSA" -> "deleted"

\* C19 (every SA operation is recorded on the ledger): every addSA,
\* updateSAStatus or deleteSA call that returned success: true has appended
\* exactly one block, whose payload carries the destinationAddress and spi of
\* the SA and the resulting status ('deleted' for deleteSA); a call appends
\* only after its write to security_associations came back without error,
\* and the chain holds no other blocks than the genesis block and these.
C19_OperationsRecorded ==
    /\ \A c \in Succeeded :
          /\ calls[c].block # null
          /\ Cardinality({i \in 1..Len(chain) : chain[i] = calls[c].block}) = 1
          /\ LET payload == heap[calls[c].block].data.rec
              IN  /\ payload.destinationAddress = calls[c].key.destinationAddress
                  /\ payload.spi = calls[c].key.spi
                  /\ payload.status = Resulting(calls[c])
    /\ \A c \in Appended : calls[c].written
    /\ \A c, d \in Appended : c # d => calls[c].block # calls[d].block
    /\ Len(chain) = 1 + Cardinality(Appended)

\* An SA was added by one call and deleted by the other.
C19_Witness ==
    /\ Succeeded = Calls
    /\ \E c \in Calls : calls[c].op = "addSA"
    /\ \E c \in Calls : /\ calls[c].op = "deleteSA"
                          /\ heap[calls[c].block].data.rec.status = "deleted"
    /\ supabase.security_associations = {}

\* The audit entries that match a call: its action, its SA and the hash of
\* the block that it appended.
AuditAction(call) ==
    CASE call.op = "addSA" -> "CREATE"
      [] call.op = "updateSAStatus" -> "UPDATE"
      [] call.op = "deleteSA" -> "DELETE"

AuditEntries(call) ==
    {i \in 1..Len(supabase.sa_audit_log) :
        LET e == supabase.sa_audit_log[i]
        IN  /\ e.action = AuditAction(call)
            /\ e.sa_id = (IF call.op = "addSA" THEN call.data.id ELSE call.existing.sa.id)
            /\ e.blockchain_tx_hash = heap[call.block].hash}

\* C20 (complete audit trail): for every call that returned success: true
\* the audit log holds an entry with the call's action, for its SA, whose
\* blockchain_tx_hash is the hash of the block that the call appended, also
\* when the insert into sa_audit_log came back with an error.
C20_AuditTrail == \A c \in Succeeded : AuditEntries(calls[c]) # {}

\* The rows of the store that have the pair of a lookup key.
RowsOf(k) ==
    {r \in supabase.security_associations :
        r.destination_address = k.destinationAddress /\ r.spi = k.spi}

\* The message of the duplicate check of addSA.
AlreadyExists == "SA with this destination address and SPI already exists"

\* C21 (duplicate rejection): with addSA calls only, on a store that holds a
\* row for the pair from the start, every addSA that has returned has
\* returned success: false with the error 'SA with this destination address
\* and SPI already exists', and no row was inserted, no block appended and
\* no audit entry written.
C21_DuplicateRejected ==
    StoredRow \in supabase.security_associations =>
       /\ \A c \in Calls : calls[c].pc = "done" =>
             calls[c].result = [success |-> FALSE, error |-> AlreadyExists]
       /\ supabase.security_associations = {StoredRow}
       /\ Len(chain) = 1
       /\ supabase.sa_audit_log = <<>>

\* C22 (uniqueness under concurrency): with addSA calls for one pair running
\* concurrently, the store never holds two rows for the pair, at most one
\* call returns success: true, and only a call whose insert was accepted
\* appends a block: a call that returned success: false has appended none,
\* and the chain holds at most one CREATE block.
C22_UniqueUnderConcurrency ==
    /\ \A k \in SAKeys : Cardinality(RowsOf(k)) <= 1
    /\ Cardinality(Succeeded) <= 1
    /\ \A c \in Calls : calls[c].pc = "done" /\ ~calls[c].result.success =>
          calls[c].block = null /\ ~calls[c].written
    /\ \A c \in Appended : calls[c].written
    /\ Cardinality(Appended) <= 1
    /\ Len(chain) = 1 + Cardinality(Appended)

\* Both calls passed the existence lookup before either inserted; one was
\* accepted and returned success, the other was rejected by the constraint.
C22_Witness ==
    /\ \A c \in Calls : /\ calls[c].pc = "done"
                         /\ calls[c].op = "addSA"
                         /\ calls[c].existing = [success |-> TRUE, sa |-> NULL]
    /\ Cardinality(Succeeded) = 1
    /\ \E c \in Calls : calls[c].result = [success |-> FALSE, error |-> "error.message"]
    /\ \A k \in SAKeys : Cardinality(RowsOf(k)) = 1
    /\ Len(chain) = 2

\* C23 (validation does not check proof of work): isChainValid returns true
\* exactly when every block after the first has hash = calculateHash() and
\* previousHash = the hash of the block before it, also when a block had a
\* field changed and its hash recomputed without mining, so that its hash
\* does not start with the required zeros.
C23_NoProofOfWorkCheck ==
    ret.op = "isChainValid" =>
       (ret.walk.valid <=> \A i \in 2..Len(chain) : HashOk(i) /\ LinkOk(i))

\* isChainValid returned true on a chain whose last block was changed and
\* rehashed, and whose hash does not start with the required zeros.
C23_Witness ==
    /\ ret.op = "isChainValid"
    /\ ret.walk.valid
    /\ tampered # NoTamper
    /\ tampered.pos = Len(chain)
    /\ Len(chain) > 1
    /\ ~Sealed(BlockAt(Len(chain)), difficulty)

\* The digest of the fields of block b with nonce n.
DigestAt(b, n) == calculateHash([b EXCEPT !.nonce = n])

\* C24 (sealing search): every draft that addBlock has sealed, after its
\* previousHash was rewritten, stores the digest of its fields, which starts
\* with difficulty zeros, and its nonce is the smallest n >= 0 for which the
\* digest of the fields with nonce n starts with difficulty zeros.
C24_SealingSearch ==
    ret.op = "addBlock" =>
       LET b == heap[ret.id]
       IN  /\ b.hash = DigestAt(b, b.nonce)
           /\ Sealed(b, difficulty)
           /\ \A n \in 0..(b.nonce - 1) :
                 substring(DigestAt(b, n).hex, difficulty) # target(difficulty)

\* C25 (no partial effects on failure): a call of addSA, updateSAStatus or
\* deleteSA that has returned success: false has inserted, changed or
\* deleted no row and has appended no block, also when a database call
\* after its write rejected.
C25_NoPartialEffects ==
    \A c \in Calls : calls[c].pc = "done" /\ ~calls[c].result.success =>
       ~calls[c].written /\ calls[c].block = null

\* The rows that an addSA call of this service inserted.
Inserted ==
    {r \in supabase.security_associations :
        \E c \in Calls : /\ calls[c].pc # "idle"
                          /\ calls[c].op = "addSA"
                          /\ calls[c].written
                          /\ calls[c].data.id = r.id}

\* The chain positions of the blocks recorded for the pair of a row.
BlocksOf(r) ==
    {i \in 2..Len(chain) :
        /\ BlockAt(i).data.rec.destinationAddress = r.destination_address
        /\ BlockAt(i).data.rec.spi = r.spi}

\* C26 (the witness matches the record): when no call is in flight, for
\* every row that the service inserted, the block whose hash is the row's
\* blockchain_tx_hash is in the chain, is the last block appended for the
\* row's pair and records the status of the row, for every interleaving of
\* the calls and also when the update that stores the hash failed.
C26_WitnessMatchesRecord ==
    (\A c \in Calls : calls[c].pc \in {"idle", "done"}) =>
       \A r \in Inserted :
          LET b == getBlockByHash(heap, chain, r.blockchain_tx_hash)
          IN  /\ b # null
              /\ \E i \in BlocksOf(r) : /\ chain[i] = b
                                         /\ \A j \in BlocksOf(r) : j <= i
              /\ heap[b].data.rec.status = r.status

\* C27 (key-hash consistency): the payload of every block that a call of
\* addSA, updateSAStatus or deleteSA appended carries as keyHash the
\* SHA-256 of the key that was given when the SA was created, which is the
\* key_hash of the row that the call inserted or updated.
C27_KeyHashConsistency ==
    \A c \in Appended :
       LET payload == heap[calls[c].block].data.rec
       IN  /\ payload.keyHash \in {hashKey(k) : k \in RawKeys}
           /\ calls[c].op # "deleteSA" => payload.keyHash = calls[c].data.key_hash

\* Two deleteSA calls ran on a store that held the SA and have returned,
\* and no database request of theirs came back with an error: each call
\* returned success or 'SA not found', and each audit insert was stored.
TwoDeletesDone ==
    /\ \A c \in Calls : /\ calls[c].pc = "done"
                         /\ calls[c].op = "deleteSA"
                         /\ \/ calls[c].result.success
                            \/ calls[c].result.error = "SA not found"
    /\ Len(supabase.sa_audit_log) = Cardinality(Succeeded)
    /\ Succeeded # {}

\* C28 (single deletion under concurrency): of two deleteSA calls for the
\* same existing SA exactly one returns success: true, the chain gains
\* exactly one block with status 'deleted' and the audit log exactly one
\* DELETE entry.
C28_SingleDeletion ==
    TwoDeletesDone =>
       /\ Cardinality(Succeeded) = 1
       /\ Cardinality({i \in 2..Len(chain) : BlockAt(i).data.rec.status = "deleted"}) = 1
       /\ Cardinality({i \in 1..Len(supabase.sa_audit_log) :
                          supabase.sa_audit_log[i].action = "DELETE"}) = 1

\* C29 (canonical digest input): two blocks that differ in any of index,
\* previousHash, timestamp, payload or nonce never give calculateHash the
\* same string to hash, and two blocks with equal fields give it the same
\* string.
C29_CanonicalDigestInput ==
    ret.op = "calculateHash" => (ret.a = ret.b <=> ret.of[1] = ret.of[2])

====
